---- MODULE Spec2Model ----
(***************************************************************************)
(* BGV Final TAT report generator (src/BGV.py).                            *)
(*                                                                         *)
(* The working-day calendar (is_working_day, add_working_days) and the     *)
(* TAT engine (calculate_due, calculate_remarks, process_report).          *)
(*                                                                         *)
(* A Timestamp is modelled by its proleptic Gregorian ordinal (the value   *)
(* of datetime.toordinal(): 0001-01-01 is day 1); the template asks for    *)
(* DD-MMM-YYYY dates, so every Timestamp is a midnight value and           *)
(* timedelta(days=1) is +1.  NaT, the missing Timestamp, is 0.             *)
(***************************************************************************)
EXTENDS Integers, Sequences, FiniteSets, TLC

VARIABLES
    pc,             \* where the program is
    start_date, n,  \* add_working_days: its arguments
    date, count,    \* add_working_days: its locals
    working,        \* add_working_days: is_working_day's last answer
    result,         \* add_working_days: the date returned
    pandas2,        \* the installed pandas infers one format per column (2.0 and later)
    uploaded_file,  \* the rows of the uploaded sheet
    result_df       \* the rows of the generated report

vars == <<pc, start_date, n, date, count, working, result,
          pandas2, uploaded_file, result_df>>

calendarVars == <<start_date, n, date, count, working, result>>
reportVars == <<pandas2, uploaded_file, result_df>>

----------------------------------------------------------------------------
(* Bounds of the model.                                                    *)

\* add_working_days is called with every n in 0..MaxN (the code calls it with 8 and 15)
MaxN == 15
\* number of consecutive start dates tried, from FirstStart on
NumStarts == 800
\* an uploaded sheet holds at most MaxRows rows
MaxRows == 2

----------------------------------------------------------------------------
(* The datetime library: the proleptic Gregorian calendar.                 *)

is_leap(y) == (y % 4 = 0) /\ ((y % 100 # 0) \/ (y % 400 = 0))

days_in_month(y, m) ==
    IF m = 2 THEN (IF is_leap(y) THEN 29 ELSE 28)
    ELSE IF m \in {4, 6, 9, 11} THEN 30 ELSE 31

days_before_year(y) ==
    LET p == y - 1 IN p * 365 + (p \div 4) - (p \div 100) + (p \div 400)

\* the days of year y before the first of month m
days_before_month(y, m) ==
    << 0, 31, 59, 90, 120, 151, 181, 212, 243, 273, 304, 334 >>[m]
        + (IF m > 2 /\ is_leap(y) THEN 1 ELSE 0)

\* date(y, m, d).toordinal()
ymd2ord(y, m, d) == days_before_year(y) + days_before_month(y, m) + d

\* date.fromordinal(o): the year, month and day of an ordinal
ord2ymd(o) ==
    LET n0   == o - 1
        n400 == n0 \div 146097
        r400 == n0 % 146097
        n100 == r400 \div 36524
        r100 == r400 % 36524
        n4   == r100 \div 1461
        r4   == r100 % 1461
        n1   == r4 \div 365
        r1   == r4 % 365
        y    == n400 * 400 + n100 * 100 + n4 * 4 + n1 + 1
    IN  IF n1 = 4 \/ n100 = 4
        THEN [year |-> y - 1, month |-> 12, day |-> 31]
        ELSE LET m0 == (r1 + 50) \div 32
                 p0 == days_before_month(y, m0)
                 m  == IF p0 > r1 THEN m0 - 1 ELSE m0
                 p  == days_before_month(y, m)
             IN  [year |-> y, month |-> m, day |-> r1 - p + 1]

\* date.weekday(): Monday is 0, Saturday 5, Sunday 6
weekday(d) == (d + 6) % 7

\* date.day
day(d) == ord2ymd(d).day

----------------------------------------------------------------------------
(* Public holidays.                                                        *)

public_holidays ==
    { ymd2ord(2025, 1, 26), ymd2ord(2025, 8, 15),
      ymd2ord(2025, 10, 2), ymd2ord(2025, 12, 25) }

----------------------------------------------------------------------------
(* Helper functions.                                                       *)

\* a slip of week_of_month: the day is not brought to base 0 first
week_of_month_off(d) == (day(d) \div 7) + 1

\* week = (date.day - 1) // 7 + 1
week_of_month(d) == ((day(d) - 1) \div 7) + 1

\* a slip of is_working_day: the holiday test is missing
is_working_day_no_holidays(d) ==
    IF weekday(d) = 6 THEN FALSE
    ELSE IF weekday(d) = 5 /\ week_of_month(d) \in {2, 4} THEN FALSE
    ELSE TRUE

is_working_day(d) ==
    IF weekday(d) = 6 THEN FALSE
    ELSE IF weekday(d) = 5 /\ week_of_month(d) \in {2, 4} THEN FALSE
    ELSE IF d \in public_holidays THEN FALSE
    ELSE TRUE

\* a slip of the loop condition: one working day too many
awd_cond_le(c, k) == c <= k

\* the loop condition of add_working_days
awd_cond(c, k) == c < k

\* a slip of the loop body: the day is tested before the step forward
awd_body_checks_current(d, c) ==
    LET w == is_working_day(d)
    IN  [date |-> d + 1, count |-> IF w THEN c + 1 ELSE c, working |-> w]

\* a slip of the loop body: the step forward is inside the `if`
awd_body_stuck(d, c) ==
    LET w == is_working_day(d)
    IN  IF w THEN [date |-> d + 1, count |-> c + 1, working |-> w]
        ELSE [date |-> d, count |-> c, working |-> w]

\* the loop body of add_working_days: one calendar day forward, counted when
\* it is a working day
awd_body(d, c) ==
    LET nd == d + 1
        w  == is_working_day(nd)
    IN  [date |-> nd, count |-> IF w THEN c + 1 ELSE c, working |-> w]

RECURSIVE awd_loop(_, _, _)
awd_loop(d, c, k) ==
    IF awd_cond(c, k)
    THEN LET s == awd_body(d, c) IN awd_loop(s.date, s.count, k)
    ELSE d

add_working_days(s, k) == awd_loop(s, 0, k)

----------------------------------------------------------------------------
(* add_working_days run step by step on every start date and every n.      *)

FirstStart == ymd2ord(2024, 1, 1)
StartDates == FirstStart .. (FirstStart + NumStarts - 1)

\* no run of the loop is cut short: the guard of Step below stops a run that
\* has walked Horizon days, which is further than any run needs
Horizon == 2 * MaxN + 10

InitCalendar ==
    /\ pc = "loop"
    /\ start_date \in StartDates
    /\ n \in 0 .. MaxN
    /\ date = start_date
    /\ count = 0
    /\ working = FALSE
    /\ result = 0
    /\ pandas2 = FALSE
    /\ uploaded_file = << >>
    /\ result_df = << >>

\* one iteration of `while count < n`
Step ==
    /\ pc = "loop"
    /\ awd_cond(count, n)
    /\ date < start_date + Horizon
    /\ LET s == awd_body(date, count)
       IN  /\ date' = s.date
           /\ count' = s.count
           /\ working' = s.working
    /\ UNCHANGED <<pc, start_date, n, result, reportVars>>

\* the loop condition fails: `return date`
Return ==
    /\ pc = "loop"
    /\ ~awd_cond(count, n)
    /\ pc' = "returned"
    /\ result' = date
    /\ UNCHANGED <<start_date, n, date, count, working, reportVars>>

NextCalendar == Step \/ Return

CalendarSpec == InitCalendar /\ [][NextCalendar]_vars

\* the interpreter runs the loop on: a step that can be taken is taken
CalendarFairSpec == CalendarSpec /\ WF_vars(Step) /\ WF_vars(Return)

----------------------------------------------------------------------------
(* Cells of the uploaded sheet, as pd.read_excel hands them over.           *)
(*   k = "nan": an empty cell (NaN)                                         *)
(*   k = "ts" : an Excel date cell, a Timestamp with ordinal o              *)
(*   k = "str": a text cell; f tells how it is written:                     *)
(*        "dmy"  d-b-y with b a month abbreviation     ("25-Feb-2025")      *)
(*        "iso"  y-b-d with b two month digits         ("2025-02-25")       *)
(*        "none" any other text, b holds the text      ("TBD")              *)

NaT == 0

NaN == [k |-> "nan", f |-> "none", d |-> 0, b |-> "", y |-> 0, o |-> 0]
Stamp(o) == [k |-> "ts", f |-> "none", d |-> 0, b |-> "", y |-> 0, o |-> o]
Text(f, d, b, y) == [k |-> "str", f |-> f, d |-> d, b |-> b, y |-> y, o |-> 0]

month_abbr ==
    << "Jan", "Feb", "Mar", "Apr", "May", "Jun",
       "Jul", "Aug", "Sep", "Oct", "Nov", "Dec" >>
month_digits ==
    << "01", "02", "03", "04", "05", "06",
       "07", "08", "09", "10", "11", "12" >>

\* the month a token names in a format, 0 when it names none
month_of(f, b) ==
    LET names == IF f = "dmy" THEN month_abbr ELSE month_digits
        hit   == { m \in 1 .. 12 : names[m] = b }
    IN  IF f \in {"dmy", "iso"} /\ hit # {} THEN CHOOSE m \in hit : TRUE ELSE 0

\* a slip of strptime: a day past the end of the month rolls over
strptime_rollover(c, f) ==
    LET m == month_of(f, c.b)
    IN  IF c.f = f /\ m # 0 /\ c.y \in 1 .. 9999 /\ c.d \in 1 .. 31
        THEN ymd2ord(c.y, m, 1) + c.d - 1
        ELSE NaT

\* datetime.strptime of a text cell with format f ("%d-%b-%Y" or
\* "%Y-%m-%d"), coerced: NaT when the text does not match or names no date
strptime(c, f) ==
    LET m == month_of(f, c.b)
    IN  IF c.f = f /\ m # 0 /\ c.y \in 1 .. 9999
           /\ c.d \in 1 .. days_in_month(c.y, m)
        THEN ymd2ord(c.y, m, c.d)
        ELSE NaT

\* one element parsed on its own (errors='coerce'): a Timestamp stays, an
\* empty cell is NaT, a text is read in the format it is written in
parse_cell(c) ==
    IF c.k = "ts" THEN c.o
    ELSE IF c.k = "str" THEN strptime(c, c.f)
    ELSE NaT

\* the format pandas infers from a text, "none" when it infers none
guess_datetime_format(c) ==
    IF c.k = "str" /\ parse_cell(c) # NaT THEN c.f ELSE "none"

\* pd.to_datetime(df[col], errors='coerce') on one column.  pandas 2.0 and
\* later (strict) infers one format from the first non-null element when it
\* is a text and parses every text of the column with it; otherwise, and in
\* older pandas, every element is parsed on its own.
to_datetime(col, strict) ==
    LET nn    == { i \in 1 .. Len(col) : col[i].k # "nan" }
        first == IF nn = {} THEN 0
                 ELSE CHOOSE i \in nn : \A j \in nn : i <= j
        fmt   == IF strict /\ first # 0 THEN guess_datetime_format(col[first])
                 ELSE "none"
    IN  [ i \in 1 .. Len(col) |->
            IF fmt # "none" /\ col[i].k = "str"
            THEN strptime(col[i], fmt)
            ELSE parse_cell(col[i]) ]

\* Series.dt.strftime('%d-%b-%Y'): NaT becomes NaN
strftime(t) ==
    IF t = NaT THEN NaN
    ELSE LET c == ord2ymd(t) IN Text("dmy", c.day, month_abbr[c.month], c.year)

----------------------------------------------------------------------------
(* The TAT engine.  A row carries BGV_Reinitiated, BGV_Received_On and      *)
(* BGV_Final_Dispatch; the identification columns are not read.            *)

\* a slip of calculate_due: the receipt date is looked at first
calculate_due_received_first(row) ==
    IF row.BGV_Received_On # NaT THEN add_working_days(row.BGV_Received_On, 15)
    ELSE IF row.BGV_Reinitiated # NaT THEN add_working_days(row.BGV_Reinitiated, 8)
    ELSE NaT

calculate_due(row) ==
    IF row.BGV_Reinitiated # NaT THEN add_working_days(row.BGV_Reinitiated, 8)
    ELSE IF row.BGV_Received_On # NaT THEN add_working_days(row.BGV_Received_On, 15)
    ELSE NaT

\* a slip of calculate_remarks: a dispatch on the due date counts as late
calculate_remarks_late_on_due(row) ==
    LET dispatch == row.BGV_Final_Dispatch
        due      == row.Final_TAT_Due_Date
        diff     == dispatch - due
    IN  IF dispatch = NaT \/ due = NaT THEN << "Pending", "" >>
        ELSE IF diff < 0 THEN << "Within TAT", "" >>
        ELSE << "Exceeded", ToString(diff) \o " days Deduction" >>

\* a slip of calculate_remarks: the overrun is counted in working days
calculate_remarks_working_days(row) ==
    LET dispatch == row.BGV_Final_Dispatch
        due      == row.Final_TAT_Due_Date
        diff     == dispatch - due
        late     == Cardinality({ d \in (due + 1) .. dispatch : is_working_day(d) })
    IN  IF dispatch = NaT \/ due = NaT THEN << "Pending", "" >>
        ELSE IF diff <= 0 THEN << "Within TAT", "" >>
        ELSE << "Exceeded", ToString(late) \o " days Deduction" >>

calculate_remarks(row) ==
    LET dispatch == row.BGV_Final_Dispatch
        due      == row.Final_TAT_Due_Date
        diff     == dispatch - due
    IN  IF dispatch = NaT \/ due = NaT THEN << "Pending", "" >>
        ELSE IF diff <= 0 THEN << "Within TAT", "" >>
        ELSE << "Exceeded", ToString(diff) \o " days Deduction" >>

column(df, name) == [ i \in 1 .. Len(df) |-> df[i][name] ]

process_report(df, strict) ==
    LET rows   == 1 .. Len(df)
        reinit == to_datetime(column(df, "BGV_Reinitiated"), strict)
        recv   == to_datetime(column(df, "BGV_Received_On"), strict)
        disp   == to_datetime(column(df, "BGV_Final_Dispatch"), strict)
    IN  [ i \in rows |->
            LET \* df.apply(calculate_due, axis=1), row i
                due == calculate_due([ BGV_Reinitiated |-> reinit[i],
                                       BGV_Received_On |-> recv[i] ])
                \* df.apply(calculate_remarks, axis=1), row i
                rem == calculate_remarks([ BGV_Final_Dispatch |-> disp[i],
                                           Final_TAT_Due_Date |-> due ])
            IN  [ BGV_Reinitiated    |-> strftime(reinit[i]),
                  BGV_Received_On    |-> strftime(recv[i]),
                  BGV_Final_Dispatch |-> strftime(disp[i]),
                  Final_TAT_Due_Date |-> strftime(due),
                  Remarks            |-> rem[1],
                  Due_Days           |-> rem[2] ] ]

----------------------------------------------------------------------------
(* The program: a sheet is uploaded and the report is generated from it.    *)

Junk == Text("none", 0, "TBD", 0)

ReinitCells == { NaN, Junk, Stamp(ymd2ord(2025, 3, 3)) }

ReceivedCells ==
    { Junk, Text("dmy", 25, "Feb", 2025), Text("iso", 25, "02", 2025) }

DispatchCells ==
    { NaN, Text("dmy", 30, "Feb", 2025),
      Text("dmy", 13, "Mar", 2025), Text("dmy", 16, "Mar", 2025) }

Rows ==
    [ BGV_Reinitiated : ReinitCells,
      BGV_Received_On : ReceivedCells,
      BGV_Final_Dispatch : DispatchCells ]

Sheets == UNION { [1 .. k -> Rows] : k \in 0 .. MaxRows }

Init ==
    /\ pc = "idle"
    /\ pandas2 \in BOOLEAN
    /\ uploaded_file = << >>
    /\ result_df = << >>
    /\ start_date = 0 /\ n = 0 /\ date = 0 /\ count = 0
    /\ working = FALSE /\ result = 0

\* `if uploaded_file:` with every template column present: the report is
\* generated from the sheet
Upload ==
    /\ pc = "idle"
    /\ \E sheet \in Sheets :
           /\ uploaded_file' = sheet
           /\ result_df' = process_report(sheet, pandas2)
    /\ pc' = "reported"
    /\ UNCHANGED <<calendarVars, pandas2>>

\* a sheet without rows: DataFrame.apply on an empty frame hands back a
\* frame, which some pandas versions refuse to assign to the two new
\* columns; `except Exception` reports the error
UploadEmptyFails ==
    /\ pc = "idle"
    /\ uploaded_file' = << >>
    /\ result_df' = << >>
    /\ pc' = "error"
    /\ UNCHANGED <<calendarVars, pandas2>>

\* the file is removed from the uploader: the script runs again without one
Clear ==
    /\ pc \in {"reported", "error"}
    /\ pc' = "idle"
    /\ uploaded_file' = << >>
    /\ result_df' = << >>
    /\ UNCHANGED <<calendarVars, pandas2>>

Next ==
    \/ Upload
    \/ UploadEmptyFails
    \/ Clear

Spec == Init /\ [][Next]_vars

----------------------------------------------------------------------------
(* The calendar's vocabulary, as the specification words it.               *)

\* which Saturday of its month d is: the number of Saturdays of the month
\* up to and including d
SaturdayOccurrence(d) ==
    Cardinality({ e \in 1 .. day(d) : weekday(d - (day(d) - e)) = 5 })

\* a working day: not a Sunday, not a 2nd/4th Saturday, not a holiday
WorkingDay(d) ==
    /\ weekday(d) # 6
    /\ ~(weekday(d) = 5 /\ SaturdayOccurrence(d) \in {2, 4})
    /\ d \notin public_holidays

\* the working days d with a < d <= b
WorkingDaysBetween(a, b) == Cardinality({ d \in (a + 1) .. b : WorkingDay(d) })

\* the loop has looked at `date`: `working` is is_working_day's answer for it
Looked == date > start_date

----------------------------------------------------------------------------
(* Claims on the calendar, checked under CalendarSpec.                     *)

\* C1 (as stated): add_working_days(start, n) returns a working day, and
\* exactly n working days d satisfy start < d <= result, for every n >= 0.
C1_AsStated ==
    pc = "returned" =>
        /\ WorkingDay(result)
        /\ WorkingDaysBetween(start_date, result) = n

\* C1 (amended): exactly n working days d satisfy start < d <= result for
\* every n >= 0, and the result is a working day for every n >= 1; for
\* n = 0 the result is start itself, a working day or not.
C1_Amended ==
    pc = "returned" =>
        /\ WorkingDaysBetween(start_date, result) = n
        /\ n >= 1 => WorkingDay(result)
        /\ n = 0 => result = start_date

C1_Witness ==
    /\ pc = "returned"
    /\ n = 8
    /\ result - start_date = 12
    /\ WorkingDay(result)

\* C2: of the Saturdays of a month, exactly the 2nd and the 4th are
\* non-working; the 1st, 3rd and 5th are working unless they are holidays.
C2_SaturdayRule ==
    (Looked /\ weekday(date) = 5) =>
        /\ SaturdayOccurrence(date) \in {2, 4} => ~working
        /\ (SaturdayOccurrence(date) \in {1, 3, 5} /\ date \notin public_holidays)
               => working

C2_Witness ==
    /\ Looked
    /\ weekday(date) = 5
    /\ SaturdayOccurrence(date) = 5
    /\ working

\* C3: is_working_day is false on every Sunday and on every holiday, and
\* true on every day that is no Sunday, no 2nd/4th Saturday and no holiday.
C3_WorkingDay ==
    Looked =>
        /\ weekday(date) = 6 => ~working
        /\ date \in public_holidays => ~working
        /\ WorkingDay(date) => working

C3_Witness ==
    /\ Looked
    /\ date \in public_holidays
    /\ weekday(date) \in 0 .. 4
    /\ ~working

\* C9: add_working_days(start, 0) returns start unchanged, whether or not
\* start is a working day.
C9_ZeroDays ==
    (pc = "returned" /\ n = 0) => result = start_date

C9_Witness ==
    /\ pc = "returned"
    /\ n = 0
    /\ weekday(start_date) = 6
    /\ result = start_date

\* C10: the loop of add_working_days terminates, with the counter at n, for
\* every start date and every n >= 0 (checked under CalendarFairSpec).
C10_Terminates == <>(pc = "returned" /\ count = n)

C10_Witness ==
    /\ pc = "returned"
    /\ n >= 8
    /\ count = n
    /\ result - start_date >= n + 4

----------------------------------------------------------------------------
(* Claims on the generated report, checked under Spec.                     *)

\* the date an output cell shows, NaT for an empty one
DateOf(c) == parse_cell(c)

\* d is the k-th working day after s
IsNthWorkingDayAfter(d, s, k) ==
    /\ d # NaT
    /\ d > s
    /\ WorkingDay(d)
    /\ WorkingDaysBetween(s, d) = k

\* a text that names no calendar date in any format
Unparseable(c) ==
    /\ c.k = "str"
    /\ ~(\E m \in 1 .. 12 :
            /\ \/ c.f = "dmy" /\ month_abbr[m] = c.b
               \/ c.f = "iso" /\ month_digits[m] = c.b
            /\ c.y \in 1 .. 9999
            /\ c.d \in 1 .. days_in_month(c.y, m))

DateFields == { "BGV_Reinitiated", "BGV_Received_On", "BGV_Final_Dispatch" }

\* what the engine derives for a row
Derived(r) == << r.Final_TAT_Due_Date, r.Remarks, r.Due_Days >>

ReportRows == IF pc = "reported" THEN 1 .. Len(result_df) ELSE {}

\* C4: the due date is the 8th working day after reinitiatedOn when that is
\* defined, else the 15th working day after receivedOn when that is defined,
\* else undefined; it is defined iff one of the two is.
C4_DueRule ==
    \A i \in ReportRows :
        LET r      == result_df[i]
            reinit == DateOf(r.BGV_Reinitiated)
            recv   == DateOf(r.BGV_Received_On)
            due    == DateOf(r.Final_TAT_Due_Date)
        IN  /\ reinit # NaT => IsNthWorkingDayAfter(due, reinit, 8)
            /\ (reinit = NaT /\ recv # NaT) => IsNthWorkingDayAfter(due, recv, 15)
            /\ (reinit = NaT /\ recv = NaT) => r.Final_TAT_Due_Date = NaN
            /\ (due # NaT) <=> (reinit # NaT \/ recv # NaT)

C4_Witness ==
    \E i \in ReportRows :
        /\ DateOf(result_df[i].BGV_Reinitiated) = ymd2ord(2025, 3, 3)
        /\ DateOf(result_df[i].BGV_Received_On) = ymd2ord(2025, 2, 25)
        /\ result_df[i].Final_TAT_Due_Date = Text("dmy", 13, "Mar", 2025)

\* C5: the status is one of the three labels; Pending iff the dispatch or
\* the due date is undefined, Exceeded iff both are defined and the dispatch
\* is after the due date, Within TAT otherwise (dispatch = due included).
C5_Status ==
    \A i \in ReportRows :
        LET r    == result_df[i]
            disp == DateOf(r.BGV_Final_Dispatch)
            due  == DateOf(r.Final_TAT_Due_Date)
        IN  /\ r.Remarks \in {"Pending", "Within TAT", "Exceeded"}
            /\ (r.Remarks = "Pending") <=> (disp = NaT \/ due = NaT)
            /\ (r.Remarks = "Exceeded") <=> (disp # NaT /\ due # NaT /\ disp > due)
            /\ (r.Remarks = "Within TAT") <=> (disp # NaT /\ due # NaT /\ disp <= due)

C5_Witness ==
    \E i \in ReportRows :
        /\ result_df[i].BGV_Final_Dispatch # NaN
        /\ result_df[i].BGV_Final_Dispatch = result_df[i].Final_TAT_Due_Date
        /\ result_df[i].Remarks = "Within TAT"

\* C6: the penalty text is non-empty iff the status is Exceeded, and is then
\* "<k> days Deduction" with k the calendar days from due date to dispatch.
C6_Penalty ==
    \A i \in ReportRows :
        LET r    == result_df[i]
            disp == DateOf(r.BGV_Final_Dispatch)
            due  == DateOf(r.Final_TAT_Due_Date)
        IN  /\ (r.Due_Days # "") <=> (r.Remarks = "Exceeded")
            /\ r.Remarks = "Exceeded" =>
                   r.Due_Days = ToString(disp - due) \o " days Deduction"

C6_Witness ==
    \E i \in ReportRows :
        /\ result_df[i].Final_TAT_Due_Date = Text("dmy", 13, "Mar", 2025)
        /\ result_df[i].BGV_Final_Dispatch = Text("dmy", 16, "Mar", 2025)
        /\ result_df[i].Remarks = "Exceeded"
        /\ result_df[i].Due_Days = "3 days Deduction"

\* C7: the report has one row per uploaded row, in the same order, and what
\* is derived for a row is what is derived for that row uploaded alone.
C7_RowsIndependent ==
    pc = "reported" =>
        /\ Len(result_df) = Len(uploaded_file)
        /\ \A i \in 1 .. Len(uploaded_file) :
               Derived(result_df[i])
                   = Derived(process_report(<< uploaded_file[i] >>, pandas2)[1])

\* C8: an unparseable text in a date field is treated as an absent value:
\* the row's due date, status and penalty are those of the same sheet with
\* that cell empty, and no malformed row makes report generation fail.
C8_UnparseableIsAbsent ==
    /\ pc = "error" => Len(uploaded_file) = 0
    /\ \A i \in ReportRows : \A f \in DateFields :
           Unparseable(uploaded_file[i][f]) =>
               Derived(result_df[i])
                   = Derived(process_report(
                                [uploaded_file EXCEPT ![i][f] = NaN], pandas2)[i])

C8_Witness ==
    \E i \in ReportRows :
        /\ Unparseable(uploaded_file[i].BGV_Reinitiated)
        /\ Unparseable(uploaded_file[i].BGV_Received_On)
        /\ uploaded_file[i].BGV_Final_Dispatch = Text("dmy", 13, "Mar", 2025)
        /\ result_df[i].Final_TAT_Due_Date = NaN
        /\ result_df[i].Remarks = "Pending"

====
